---- MODULE Spec2Model ----
(***************************************************************************)
(* UserModel (src/src/usermodel.cpp): the list model that caches the OS    *)
(* user accounts and keeps them in step with the user-manager daemon.      *)
(*                                                                         *)
(* Rows are numbered from 0 as in the code; m_users is a TLA+ sequence, so *)
(* row r is m_users[r + 1].                                                *)
(***************************************************************************)
EXTENDS Integers, Sequences, FiniteSets, TLC

(* ------------------------------ bounds --------------------------------- *)
MaxUid == 2          \* the uids of the full model are 1..MaxUid
MaxBroadcastUid == 3 \* the uids of the broadcast-only model
MaxRows == 4         \* no handler grows the cache beyond MaxRows rows
MaxPending == 1      \* at most MaxPending replies are outstanding

Uids == 1..MaxUid
BroadcastUids == 1..MaxBroadcastUid
Names == {"", "a", "b"}

(* ------------------------------- state --------------------------------- *)
VARIABLES
    m_users,          \* QVector<UserInfo>: the rows
    m_uidsToRows,     \* QHash<uint, int>: uid -> row
    m_dBusInterface,  \* TRUE iff the proxy exists (non-null pointer)
    proxies,          \* the number of QDBusInterface objects created and
                      \* not released
    calls,            \* the asynchronous calls whose reply is outstanding
    crashed,          \* a handler went outside the vector (undefined
                      \* behaviour): the process died, or lives on with
                      \* corrupt memory.  crashed stands for every such
                      \* outcome; the model does not follow the process
                      \* further and the other variables keep the values
                      \* they had when the handler started
    emitted,          \* the signals emitted by the most recent handler, in order
    lookupFailed,     \* TRUE once userAddFinished has inserted the record of
                      \* a uid whose OS lookup failed
    currentUser       \* the uid of the user UserInfo holds as the current
                      \* user: the user of the active seat when it last looked

vars == <<m_users, m_uidsToRows, m_dBusInterface, proxies, calls, crashed, emitted,
          lookupFailed, currentUser>>

(* ------------------- UserInfo (userinfo.cpp, not in src/) -------------- *)
InvalidId == -1

\* A user that is no member of the group "users": never a row of the cache,
\* but possibly the user of the active seat.
OtherUid == 0

\* The users that can be the user of the active seat.
CurrentUids == Uids \cup {OtherUid}

\* The name the OS identity lookup reports for a known uid.
OsName(uid) == "a"

\* UserInfo::placeholder(): the invalid record of the "new user" row.
UserInfoPlaceholder ==
    [uid |-> InvalidId, valid |-> FALSE, name |-> "", current |-> FALSE]

\* UserInfo(uid): the record read from the OS; invalid when the lookup of
\* the uid fails (found = FALSE).
UserInfo(uid, found) ==
    IF found
    THEN [uid |-> uid, valid |-> TRUE, name |-> OsName(uid),
          current |-> (uid = currentUser)]
    ELSE UserInfoPlaceholder

\* UserInfo(): the record of the user of the active seat, flagged current.
UserInfoCurrent == UserInfo(currentUser, TRUE)

\* UserInfo::updateCurrent(): re-read whether the user of the record is the
\* user of the active seat.
UserInfoUpdateCurrent(user, seatUid) ==
    [user EXCEPT !.current = (user.valid /\ user.uid = seatUid)]

\* UserInfo::reset(): re-read the mutable fields from the OS; the identity
\* (uid, validity) of the record stays.
UserInfoReset(user) ==
    IF user.valid THEN [user EXCEPT !.name = OsName(user.uid)]
    ELSE [user EXCEPT !.name = ""]

\* UserInfo::setName()
UserInfoSetName(user, name) == [user EXCEPT !.name = name]

(* ------------------------ QVector / QHash ------------------------------ *)
\* QVector::insert(row, e), 0 <= row <= count
VecInsert(s, row, e) == SubSeq(s, 1, row) \o <<e>> \o SubSeq(s, row + 1, Len(s))

\* QVector::remove(row), 0 <= row < count
VecRemove(s, row) == SubSeq(s, 1, row) \o SubSeq(s, row + 2, Len(s))

\* QHash::insert(k, v): replaces the value of an existing key
HashInsert(h, k, v) == [x \in (DOMAIN h) \cup {k} |-> IF x = k THEN v ELSE h[x]]

\* QHash::remove(k)
HashRemove(h, k) == [x \in (DOMAIN h) \ {k} |-> h[x]]

\* QHash::contains(k)
HashContains(h, k) == k \in DOMAIN h

EmptyHash == [x \in {} |-> 0]

(* ------------------------------ signals -------------------------------- *)
\* One emitted Qt signal: its name, the row it names (-1: none) and its
\* argument (the roles of dataChanged, the error code of a failure).
Signal(sig, row, arg) == [sig |-> sig, row |-> row, arg |-> arg]

(* --------------------------- error classifier -------------------------- *)
\* The error names of the daemon are named by the macros of
\* sailfishusermanagerinterface.h; the model writes a name as its macro.
ErrorNames ==
    {"SailfishUserManagerErrorBusy",
     "SailfishUserManagerErrorHomeCreateFailed",
     "SailfishUserManagerErrorHomeRemoveFailed",
     "SailfishUserManagerErrorGroupCreateFailed",
     "SailfishUserManagerErrorUserAddFailed",
     "SailfishUserManagerErrorUserModifyFailed",
     "SailfishUserManagerErrorUserRemoveFailed",
     "SailfishUserManagerErrorGetUidFailed",
     "SailfishUserManagerErrorUserNotFound",
     "SailfishUserManagerErrorAddToGroupFailed",
     "SailfishUserManagerErrorRemoveFromGroupFailed"}

\* errorTypeMap.value(name, UserModel::OtherError)
errorTypeMap(name) ==
    CASE name = "SailfishUserManagerErrorBusy" -> "Busy"
      [] name = "SailfishUserManagerErrorHomeCreateFailed" -> "HomeCreateFailed"
      [] name = "SailfishUserManagerErrorHomeRemoveFailed" -> "HomeRemoveFailed"
      [] name = "SailfishUserManagerErrorGroupCreateFailed" -> "GroupCreateFailed"
      [] name = "SailfishUserManagerErrorUserAddFailed" -> "UserAddFailed"
      [] name = "SailfishUserManagerErrorUserModifyFailed" -> "UserModifyFailed"
      [] name = "SailfishUserManagerErrorUserRemoveFailed" -> "UserRemoveFailed"
      [] name = "SailfishUserManagerErrorGetUidFailed" -> "GetUidFailed"
      [] name = "SailfishUserManagerErrorUserNotFound" -> "UserNotFound"
      [] name = "SailfishUserManagerErrorAddToGroupFailed" -> "AddToGroupFailed"
      [] name = "SailfishUserManagerErrorRemoveFromGroupFailed" -> "RemoveFromGroupFailed"
      [] OTHER -> "OtherError"

\* A classifier that looks at the error name only.
getErrorTypeByName(error) == errorTypeMap(error[2])

\* error = <<transport error type, error name>>
getErrorType(error) ==
    IF error[1] # "Other" THEN error[1] ELSE errorTypeMap(error[2])

\* The error replies the completions are driven with.
SampleErrors == {<<"Other", "SailfishUserManagerErrorUserRemoveFailed">>, <<"NoReply", "">>}

Call(verb, row, uid) == [verb |-> verb, row |-> row, uid |-> uid]

\* Removing the i-th outstanding call when its reply is delivered.
Take(i) == SubSeq(calls, 1, i - 1) \o SubSeq(calls, i + 1, Len(calls))

(* --------------------------- the proxy --------------------------------- *)
\* A createInterface that never creates the proxy.
createInterfaceNever(iface) == iface

\* UserModel::createInterface(): creates the proxy (and its subscriptions)
\* unless one exists.
createInterface(iface) == IF ~iface THEN TRUE ELSE iface

\* UserModel::destroyInterface(): releases the proxy if one exists.
destroyInterface(iface) == IF iface THEN FALSE ELSE iface

\* A createInterface that makes a new proxy whether or not one exists.
createInterfaceProxiesAlways(iface, n) == n + 1

\* The QDBusInterface objects alive after createInterface: one more (new
\* QDBusInterface) unless the pointer is set.
createInterfaceProxies(iface, n) == IF ~iface THEN n + 1 ELSE n

\* The QDBusInterface objects alive after destroyInterface: the one the
\* pointer names is released (deleteLater).
destroyInterfaceProxies(iface, n) == IF iface THEN n - 1 ELSE n

(* ------------------------------ bootstrap ------------------------------ *)
\* The sequences of distinct uids: the members of group "users" in any order.
RECURSIVE DistinctSeqs(_)
DistinctSeqs(S) ==
    {<<>>} \cup UNION {{<<u>> \o s : s \in DistinctSeqs(S \ {u})} : u \in S}

\* Constructor loop over the valid members (an invalid one is skipped, which
\* is the same as its not being a member): append, then index at count-1.
RECURSIVE Bootstrap(_)
Bootstrap(members) ==
    IF members = <<>> THEN [users |-> <<>>, index |-> EmptyHash]
    ELSE LET n == Len(members)
             before == Bootstrap(SubSeq(members, 1, n - 1))
             users == Append(before.users, UserInfo(members[n], TRUE))
         IN [users |-> users,
             index |-> HashInsert(before.index, members[n], Len(users) - 1)]

\* The state the constructor leaves, for the group members drawn from U.
Constructed(U) ==
    /\ currentUser \in CurrentUids
    /\ \E members \in DistinctSeqs(U) :
          /\ m_users = Bootstrap(members).users
          /\ m_uidsToRows = Bootstrap(members).index
    /\ \E isServiceRegistered \in BOOLEAN :
          /\ m_dBusInterface = IF isServiceRegistered THEN createInterface(FALSE) ELSE FALSE
          /\ proxies = IF isServiceRegistered THEN createInterfaceProxies(FALSE, 0) ELSE 0
    /\ calls = <<>>
    /\ crashed = FALSE
    /\ emitted = <<>>
    /\ lookupFailed = FALSE

Init == Constructed(Uids)

(* --------------------------- placeholder ------------------------------- *)
\* UserModel::placeholder()
placeholder(users) ==
    IF Len(users) = 0 THEN FALSE ELSE ~users[Len(users)].valid

\* UserModel::setPlaceholder(value): the new rows and the signals
setPlaceholder(users, value) ==
    IF placeholder(users) = value
    THEN [users |-> users, sigs |-> <<>>]
    ELSE IF value
         THEN [users |-> Append(users, UserInfoPlaceholder),
               sigs |-> <<Signal("rowsInserted", Len(users), ""),
                          Signal("placeholderChanged", -1, "")>>]
         ELSE [users |-> VecRemove(users, Len(users) - 1),
               sigs |-> <<Signal("rowsRemoved", Len(users) - 1, ""),
                          Signal("placeholderChanged", -1, "")>>]

SetPlaceholderTo(value) ==
    /\ ~crashed
    /\ LET r == setPlaceholder(m_users, value) IN
          /\ Len(r.users) <= MaxRows
          /\ m_users' = r.users
          /\ emitted' = r.sigs
    /\ UNCHANGED <<m_uidsToRows, m_dBusInterface, proxies, calls, crashed, lookupFailed, currentUser>>

SetPlaceholder == \E value \in BOOLEAN : SetPlaceholderTo(value)

(* ------------------------ service watcher ------------------------------ *)
\* QDBusServiceWatcher::serviceRegistered -> createInterface
ServiceRegistered ==
    /\ ~crashed
    /\ m_dBusInterface' = createInterface(m_dBusInterface)
    /\ proxies' = createInterfaceProxies(m_dBusInterface, proxies)
    /\ emitted' = <<>>
    /\ UNCHANGED <<m_users, m_uidsToRows, calls, crashed, lookupFailed, currentUser>>

\* QDBusServiceWatcher::serviceUnregistered -> destroyInterface
ServiceUnregistered ==
    /\ ~crashed
    /\ m_dBusInterface' = destroyInterface(m_dBusInterface)
    /\ proxies' = destroyInterfaceProxies(m_dBusInterface, proxies)
    /\ emitted' = <<>>
    /\ UNCHANGED <<m_users, m_uidsToRows, calls, crashed, lookupFailed, currentUser>>

\* A broadcast of the daemon reaches the model only through the
\* subscriptions createInterface makes, which destroyInterface drops.
Subscribed == m_dBusInterface

(* ------------------------- local operations ---------------------------- *)
\* A setData that renames without comparing the new name with the empty
\* name and with the name the row has.
setDataUnconditionally(users, row, role, name) ==
    LET nothing == [ret |-> FALSE, users |-> users, sigs |-> <<>>, cmd |-> <<>>] IN
    IF row < 0 \/ row >= Len(users) THEN nothing
    ELSE IF role # "NameRole" THEN nothing
    ELSE LET user == users[row + 1] IN
         [ret |-> TRUE,
          users |-> [users EXCEPT ![row + 1] = UserInfoSetName(user, name)],
          sigs |-> <<Signal("dataChanged", row, "NameRole")>>,
          cmd |-> IF user.valid
                  THEN <<Call("modifyUser", row, user.uid)>>
                  ELSE <<>>]

\* UserModel::setData(index, value, role): the return value, the new rows,
\* the signals and the command issued (a sequence of zero or one call).
setData(users, row, role, name) ==
    LET nothing == [ret |-> FALSE, users |-> users, sigs |-> <<>>, cmd |-> <<>>] IN
    IF row < 0 \/ row >= Len(users) THEN nothing
    ELSE IF role # "NameRole" THEN nothing
    ELSE LET user == users[row + 1] IN
         IF name = "" \/ name = user.name THEN nothing
         ELSE [ret |-> TRUE,
               users |-> [users EXCEPT ![row + 1] = UserInfoSetName(user, name)],
               sigs |-> <<Signal("dataChanged", row, "NameRole")>>,
               cmd |-> IF user.valid
                       THEN <<Call("modifyUser", row, user.uid)>>
                       ELSE <<>>]

\* The roles setData is called with: the name role and one read-only role.
Roles == {"NameRole", "UidRole"}

SetData ==
    /\ ~crashed
    /\ \E row \in -1..Len(m_users), role \in Roles, name \in Names :
          LET r == setData(m_users, row, role, name) IN
          /\ Len(calls) + Len(r.cmd) <= MaxPending
          /\ m_users' = r.users
          /\ emitted' = r.sigs
          /\ calls' = calls \o r.cmd
          /\ m_dBusInterface' = IF r.cmd # <<>> THEN createInterface(m_dBusInterface)
                                ELSE m_dBusInterface
          /\ proxies' = IF r.cmd # <<>>
                        THEN createInterfaceProxies(m_dBusInterface, proxies)
                        ELSE proxies
    /\ UNCHANGED <<m_uidsToRows, crashed, lookupFailed, currentUser>>

\* UserModel::createUser(): the command issued, if any.
createUser(users) ==
    IF ~placeholder(users) THEN <<>>
    ELSE IF users[Len(users)].name = "" THEN <<>>
    ELSE <<Call("addUser", -1, InvalidId)>>

CreateUser ==
    /\ ~crashed
    /\ LET cmd == createUser(m_users) IN
          /\ Len(calls) + Len(cmd) <= MaxPending
          /\ calls' = calls \o cmd
          /\ m_dBusInterface' = IF cmd # <<>> THEN createInterface(m_dBusInterface)
                                ELSE m_dBusInterface
          /\ proxies' = IF cmd # <<>>
                        THEN createInterfaceProxies(m_dBusInterface, proxies)
                        ELSE proxies
    /\ emitted' = <<>>
    /\ UNCHANGED <<m_users, m_uidsToRows, crashed, lookupFailed, currentUser>>

\* A removeUser that does not look at the validity of the row.
removeUserOfAnyRow(users, row) ==
    IF row < 0 \/ row >= Len(users) THEN <<>>
    ELSE <<Call("removeUser", row, users[row + 1].uid)>>

\* UserModel::removeUser(row): the command issued, if any.
removeUser(users, row) ==
    IF row < 0 \/ row >= Len(users) THEN <<>>
    ELSE IF ~users[row + 1].valid THEN <<>>
    ELSE <<Call("removeUser", row, users[row + 1].uid)>>

RemoveUser ==
    /\ ~crashed
    /\ \E row \in -1..Len(m_users) :
          LET cmd == removeUser(m_users, row) IN
          /\ Len(calls) + Len(cmd) <= MaxPending
          /\ calls' = calls \o cmd
          /\ m_dBusInterface' = IF cmd # <<>> THEN createInterface(m_dBusInterface)
                                ELSE m_dBusInterface
          /\ proxies' = IF cmd # <<>>
                        THEN createInterfaceProxies(m_dBusInterface, proxies)
                        ELSE proxies
    /\ emitted' = <<>>
    /\ UNCHANGED <<m_users, m_uidsToRows, crashed, lookupFailed, currentUser>>

\* UserModel::reset(row): the new rows and the signals.
reset(users, row) ==
    IF row < 0 \/ row >= Len(users)
    THEN [users |-> users, sigs |-> <<>>]
    ELSE [users |-> [users EXCEPT ![row + 1] = UserInfoReset(@)],
          sigs |-> <<Signal("dataChanged", row, "")>>]

Reset ==
    /\ ~crashed
    /\ \E row \in -1..Len(m_users) :
          LET r == reset(m_users, row) IN
          /\ m_users' = r.users
          /\ emitted' = r.sigs
    /\ UNCHANGED <<m_uidsToRows, m_dBusInterface, proxies, calls, crashed, lookupFailed, currentUser>>

\* UserModel::setCurrentUser(row): the command issued, if any.
setCurrentUser(users, row) ==
    IF row < 0 \/ row >= Len(users) THEN <<>>
    ELSE IF ~users[row + 1].valid THEN <<>>
    ELSE <<Call("setCurrentUser", row, users[row + 1].uid)>>

\* A setCurrentUser that flags the row current at once, without waiting for
\* the broadcast.
SetCurrentUserOptimistic ==
    /\ ~crashed
    /\ \E row \in -1..Len(m_users) :
          LET cmd == setCurrentUser(m_users, row) IN
          /\ Len(calls) + Len(cmd) <= MaxPending
          /\ calls' = calls \o cmd
          /\ m_users' = IF cmd # <<>>
                        THEN [m_users EXCEPT ![row + 1].current = TRUE]
                        ELSE m_users
          /\ m_dBusInterface' = IF cmd # <<>> THEN createInterface(m_dBusInterface)
                                ELSE m_dBusInterface
          /\ proxies' = IF cmd # <<>>
                        THEN createInterfaceProxies(m_dBusInterface, proxies)
                        ELSE proxies
    /\ emitted' = <<>>
    /\ UNCHANGED <<m_uidsToRows, crashed, lookupFailed, currentUser>>

SetCurrentUser ==
    /\ ~crashed
    /\ \E row \in -1..Len(m_users) :
          LET cmd == setCurrentUser(m_users, row) IN
          /\ Len(calls) + Len(cmd) <= MaxPending
          /\ calls' = calls \o cmd
          /\ m_dBusInterface' = IF cmd # <<>> THEN createInterface(m_dBusInterface)
                                ELSE m_dBusInterface
          /\ proxies' = IF cmd # <<>>
                        THEN createInterfaceProxies(m_dBusInterface, proxies)
                        ELSE proxies
    /\ emitted' = <<>>
    /\ UNCHANGED <<m_users, m_uidsToRows, crashed, lookupFailed, currentUser>>

\* UserModel::addGroups(row, groups): the command issued, if any.
addGroups(users, row) ==
    IF row < 0 \/ row >= Len(users) THEN <<>>
    ELSE IF ~users[row + 1].valid THEN <<>>
    ELSE <<Call("addToGroups", row, users[row + 1].uid)>>

AddGroups ==
    /\ ~crashed
    /\ \E row \in -1..Len(m_users) :
          LET cmd == addGroups(m_users, row) IN
          /\ Len(calls) + Len(cmd) <= MaxPending
          /\ calls' = calls \o cmd
          /\ m_dBusInterface' = IF cmd # <<>> THEN createInterface(m_dBusInterface)
                                ELSE m_dBusInterface
          /\ proxies' = IF cmd # <<>>
                        THEN createInterfaceProxies(m_dBusInterface, proxies)
                        ELSE proxies
    /\ emitted' = <<>>
    /\ UNCHANGED <<m_users, m_uidsToRows, crashed, lookupFailed, currentUser>>

\* UserModel::removeGroups(row, groups): the command issued, if any.
removeGroups(users, row) ==
    IF row < 0 \/ row >= Len(users) THEN <<>>
    ELSE IF ~users[row + 1].valid THEN <<>>
    ELSE <<Call("removeFromGroups", row, users[row + 1].uid)>>

RemoveGroups ==
    /\ ~crashed
    /\ \E row \in -1..Len(m_users) :
          LET cmd == removeGroups(m_users, row) IN
          /\ Len(calls) + Len(cmd) <= MaxPending
          /\ calls' = calls \o cmd
          /\ m_dBusInterface' = IF cmd # <<>> THEN createInterface(m_dBusInterface)
                                ELSE m_dBusInterface
          /\ proxies' = IF cmd # <<>>
                        THEN createInterfaceProxies(m_dBusInterface, proxies)
                        ELSE proxies
    /\ emitted' = <<>>
    /\ UNCHANGED <<m_users, m_uidsToRows, crashed, lookupFailed, currentUser>>

(* ------------------------ handler outcomes ----------------------------- *)
\* What a handler leaves behind: the rows, the index, the signals emitted,
\* and whether it went outside the vector.
Out(users, index, sigs) ==
    [users |-> users, index |-> index, sigs |-> sigs, crashed |-> FALSE]

Crash(users, index) ==
    [users |-> users, index |-> index, sigs |-> <<>>, crashed |-> TRUE]

(* ----------------------------- broadcasts ------------------------------ *)
\* UserModel::onUserAdded(entry); found: the OS lookup of entry.uid succeeds
onUserAdded(users, index, uid, found) ==
    IF HashContains(index, uid) THEN Out(users, index, <<>>)
    ELSE LET user == UserInfo(uid, found) IN
         IF user.valid
         THEN LET row == IF placeholder(users) THEN Len(users) - 1 ELSE Len(users) IN
              Out(VecInsert(users, row, user), HashInsert(index, uid, row),
                  <<Signal("rowsInserted", row, "")>>)
         ELSE Out(users, index, <<>>)

OnUserAddedOf(U) ==
    /\ ~crashed
    /\ Subscribed
    /\ \E uid \in U, found \in BOOLEAN :
          LET o == onUserAdded(m_users, m_uidsToRows, uid, found) IN
          /\ Len(o.users) <= MaxRows
          /\ m_users' = o.users
          /\ m_uidsToRows' = o.index
          /\ emitted' = o.sigs
    /\ UNCHANGED <<m_dBusInterface, proxies, calls, crashed, lookupFailed, currentUser>>

OnUserAdded == OnUserAddedOf(Uids)

\* UserModel::onUserModified(uid, newName).  m_users[row] with row outside
\* the vector is out of bounds.
onUserModified(users, index, uid, newName) ==
    IF ~HashContains(index, uid) THEN Out(users, index, <<>>)
    ELSE LET row == index[uid] IN
         IF row < 0 \/ row >= Len(users) THEN Crash(users, index)
         ELSE IF users[row + 1].name # newName
              THEN Out([users EXCEPT ![row + 1] = UserInfoSetName(@, newName)], index,
                       <<Signal("dataChanged", row, "NameRole")>>)
              ELSE Out(users, index, <<>>)

OnUserModified ==
    /\ ~crashed
    /\ Subscribed
    /\ \E uid \in Uids, newName \in Names \ {""} :
          LET o == onUserModified(m_users, m_uidsToRows, uid, newName) IN
          /\ m_users' = o.users
          /\ m_uidsToRows' = o.index
          /\ emitted' = o.sigs
          /\ crashed' = o.crashed
    /\ UNCHANGED <<m_dBusInterface, proxies, calls, lookupFailed, currentUser>>

\* An onUserRemoved loop that leaves every value as it is.
ShiftNothing(index, row) == index

\* The loop of onUserRemoved: every value above the removed row drops by one.
ShiftDown(index, row) ==
    [k \in DOMAIN index |-> IF index[k] > row THEN index[k] - 1 ELSE index[k]]

\* An onUserRemoved that takes the row out and leaves the uid in the index.
onUserRemovedKeepingKey(users, index, uid) ==
    IF ~HashContains(index, uid) THEN Out(users, index, <<>>)
    ELSE LET row == index[uid] IN
         IF row < 0 \/ row >= Len(users) THEN Crash(users, index)
         ELSE Out(VecRemove(users, row), ShiftDown(index, row),
                  <<Signal("rowsRemoved", row, "")>>)

\* UserModel::onUserRemoved(uid).  m_users.remove(row) with row outside the
\* vector is out of bounds.
onUserRemoved(users, index, uid) ==
    IF ~HashContains(index, uid) THEN Out(users, index, <<>>)
    ELSE LET row == index[uid] IN
         IF row < 0 \/ row >= Len(users) THEN Crash(users, index)
         ELSE Out(VecRemove(users, row), ShiftDown(HashRemove(index, uid), row),
                  <<Signal("rowsRemoved", row, "")>>)

OnUserRemovedOf(U) ==
    /\ ~crashed
    /\ Subscribed
    /\ \E uid \in U :
          LET o == onUserRemoved(m_users, m_uidsToRows, uid) IN
          /\ m_users' = o.users
          /\ m_uidsToRows' = o.index
          /\ emitted' = o.sigs
          /\ crashed' = o.crashed
    /\ UNCHANGED <<m_dBusInterface, proxies, calls, lookupFailed, currentUser>>

OnUserRemoved == OnUserRemovedOf(Uids)

\* UserModel::index(row, 0): the row of the model index, -1 for the invalid
\* index that a row outside the cache gives.
modelIndex(users, row) == IF row < 0 \/ row >= Len(users) THEN -1 ELSE row

\* QHash::value(k): the value of the key, 0 (a default-constructed int) when
\* the hash does not hold the key.
HashValue(h, k) == IF HashContains(h, k) THEN h[k] ELSE 0

\* UserModel::getCurrentUser(): new UserInfo().
getCurrentUser == UserInfoCurrent

\* UserModel::onCurrentUserChanged(uid); the user of the active seat is uid
\* when the broadcast is processed.  The record getCurrentUser returns is
\* the record of the rows of that user, so updateCurrent on it clears their
\* flag.  m_users[row] with row outside the vector is out of bounds.
onCurrentUserChanged(users, index, uid) ==
    LET previous == getCurrentUser
        changed1 == UserInfoUpdateCurrent(previous, uid).current # previous.current
        users1 == IF ~changed1 THEN users
                  ELSE [r \in 1..Len(users) |->
                           IF users[r].valid /\ users[r].uid = previous.uid
                           THEN UserInfoUpdateCurrent(users[r], uid) ELSE users[r]]
        sigs1 == IF changed1
                 THEN <<Signal("dataChanged",
                               modelIndex(users, HashValue(index, previous.uid)),
                               "CurrentRole")>>
                 ELSE <<>>
    IN IF ~HashContains(index, uid) THEN Out(users1, index, sigs1)
       ELSE LET row == index[uid] IN
            IF row < 0 \/ row >= Len(users1) THEN Crash(users, index)
            ELSE LET updated == UserInfoUpdateCurrent(users1[row + 1], uid) IN
                 IF updated.current # users1[row + 1].current
                 THEN Out([users1 EXCEPT ![row + 1] = updated], index,
                          sigs1 \o <<Signal("dataChanged", modelIndex(users1, row),
                                            "CurrentRole")>>)
                 ELSE Out(users1, index, sigs1)

OnCurrentUserChanged ==
    /\ ~crashed
    /\ Subscribed
    /\ \E uid \in CurrentUids :
          LET o == onCurrentUserChanged(m_users, m_uidsToRows, uid) IN
          /\ m_users' = o.users
          /\ emitted' = o.sigs
          /\ crashed' = o.crashed
          /\ currentUser' = IF o.crashed THEN currentUser ELSE uid
    /\ UNCHANGED <<m_uidsToRows, m_dBusInterface, proxies, calls, lookupFailed>>

\* UserModel::onCurrentUserChangeFailed(uid): the signals.
onCurrentUserChangeFailed(index, uid) ==
    IF HashContains(index, uid)
    THEN <<Signal("setCurrentUserFailed", index[uid], "Failure")>>
    ELSE <<>>

OnCurrentUserChangeFailed ==
    /\ ~crashed
    /\ Subscribed
    /\ \E uid \in CurrentUids :
          emitted' = onCurrentUserChangeFailed(m_uidsToRows, uid)
    /\ UNCHANGED <<m_users, m_uidsToRows, m_dBusInterface, proxies, calls, crashed,
                   lookupFailed, currentUser>>

(* ----------------------------- completions ----------------------------- *)
\* A userAddFinished that turns the placeholder into the committed row
\* instead of inserting a row in front of it.
userAddFinishedPromoting(users, index, ok, uid, found, error) ==
    IF ~ok
    THEN Out(users, index, <<Signal("userAddFailed", -1, getErrorType(error))>>)
    ELSE IF HashContains(index, uid)
    THEN LET r == reset(users, Len(users) - 1) IN Out(r.users, index, r.sigs)
    ELSE LET row == Len(users) - 1 IN
         IF row < 0 THEN Crash(users, index)
         ELSE Out([users EXCEPT ![row + 1] = UserInfo(uid, found)],
                  HashInsert(index, uid, row),
                  <<Signal("dataChanged", row, "")>>)

\* UserModel::userAddFinished(call).
\* ok: the reply is a success carrying uid; found: the OS lookup of uid
\* succeeds; error: the error of a failure reply.
\* With no row at all, row is -1 and beginInsertRows / QVector::insert go
\* outside the vector.
userAddFinished(users, index, ok, uid, found, error) ==
    IF ~ok
    THEN Out(users, index, <<Signal("userAddFailed", -1, getErrorType(error))>>)
    ELSE IF HashContains(index, uid)
    THEN LET r == reset(users, Len(users) - 1) IN Out(r.users, index, r.sigs)
    ELSE LET row == Len(users) - 1 IN
         IF row < 0 THEN Crash(users, index)
         ELSE LET users1 == VecInsert(users, row, UserInfo(uid, found))
                  r == reset(users1, Len(users1) - 1)
              IN Out(r.users, HashInsert(index, uid, row),
                     <<Signal("rowsInserted", row, "")>> \o r.sigs)

\* Found: the outcomes of the OS lookup of the uid the reply carries.
UserAddFinishedOf(Found) ==
    /\ ~crashed
    /\ \E i \in 1..Len(calls), ok \in BOOLEAN, uid \in Uids, found \in Found,
          error \in SampleErrors :
          /\ calls[i].verb = "addUser"
          /\ LET o == userAddFinished(m_users, m_uidsToRows, ok, uid, found, error) IN
                /\ Len(o.users) <= MaxRows
                /\ m_users' = o.users
                /\ m_uidsToRows' = o.index
                /\ emitted' = o.sigs
                /\ crashed' = o.crashed
                /\ lookupFailed' =
                      (lookupFailed \/ \E r \in 1..Len(o.users) :
                                          r < Len(o.users) /\ ~o.users[r].valid)
          /\ calls' = Take(i)
    /\ UNCHANGED <<m_dBusInterface, proxies, currentUser>>

\* The reply to add-user names a user the daemon has just created: the OS
\* lookup of its uid succeeds.
UserAddFinished == UserAddFinishedOf({TRUE})

\* UserModel::userModifyFinished(call, row): the new rows and the signals.
userModifyFinished(users, row, ok, error) ==
    IF ~ok
    THEN LET r == reset(users, row) IN
         [users |-> r.users,
          sigs |-> <<Signal("userModifyFailed", row, getErrorType(error))>> \o r.sigs]
    ELSE [users |-> users, sigs |-> <<>>]

UserModifyFinished ==
    /\ ~crashed
    /\ \E i \in 1..Len(calls), ok \in BOOLEAN, error \in SampleErrors :
          /\ calls[i].verb = "modifyUser"
          /\ LET r == userModifyFinished(m_users, calls[i].row, ok, error) IN
                /\ m_users' = r.users
                /\ emitted' = r.sigs
          /\ calls' = Take(i)
    /\ UNCHANGED <<m_uidsToRows, m_dBusInterface, proxies, crashed, lookupFailed, currentUser>>

\* A userRemoveFinished that drops the error of the reply.
userRemoveFinishedSilent(row, ok, error) == <<>>

\* UserModel::userRemoveFinished(call, row): the signals.
userRemoveFinished(row, ok, error) ==
    IF ~ok THEN <<Signal("userRemoveFailed", row, getErrorType(error))>> ELSE <<>>

UserRemoveFinished ==
    /\ ~crashed
    /\ \E i \in 1..Len(calls), ok \in BOOLEAN, error \in SampleErrors :
          /\ calls[i].verb = "removeUser"
          /\ emitted' = userRemoveFinished(calls[i].row, ok, error)
          /\ calls' = Take(i)
    /\ UNCHANGED <<m_users, m_uidsToRows, m_dBusInterface, proxies, crashed, lookupFailed, currentUser>>

\* UserModel::setCurrentUserFinished(call, row): the signals.
setCurrentUserFinished(row, ok, error) ==
    IF ~ok THEN <<Signal("setCurrentUserFailed", row, getErrorType(error))>> ELSE <<>>

SetCurrentUserFinished ==
    /\ ~crashed
    /\ \E i \in 1..Len(calls), ok \in BOOLEAN, error \in SampleErrors :
          /\ calls[i].verb = "setCurrentUser"
          /\ emitted' = setCurrentUserFinished(calls[i].row, ok, error)
          /\ calls' = Take(i)
    /\ UNCHANGED <<m_users, m_uidsToRows, m_dBusInterface, proxies, crashed, lookupFailed,
                   currentUser>>

\* UserModel::addToGroupsFinished(call, row): the signals.
addToGroupsFinished(row, ok, error) ==
    IF ~ok THEN <<Signal("addGroupsFailed", row, getErrorType(error))>>
    ELSE <<Signal("userGroupsChanged", row, "")>>

AddToGroupsFinished ==
    /\ ~crashed
    /\ \E i \in 1..Len(calls), ok \in BOOLEAN, error \in SampleErrors :
          /\ calls[i].verb = "addToGroups"
          /\ emitted' = addToGroupsFinished(calls[i].row, ok, error)
          /\ calls' = Take(i)
    /\ UNCHANGED <<m_users, m_uidsToRows, m_dBusInterface, proxies, crashed, lookupFailed,
                   currentUser>>

\* UserModel::removeFromGroupsFinished(call, row): the signals.
removeFromGroupsFinished(row, ok, error) ==
    IF ~ok THEN <<Signal("removeGroupsFailed", row, getErrorType(error))>>
    ELSE <<Signal("userGroupsChanged", row, "")>>

RemoveFromGroupsFinished ==
    /\ ~crashed
    /\ \E i \in 1..Len(calls), ok \in BOOLEAN, error \in SampleErrors :
          /\ calls[i].verb = "removeFromGroups"
          /\ emitted' = removeFromGroupsFinished(calls[i].row, ok, error)
          /\ calls' = Take(i)
    /\ UNCHANGED <<m_users, m_uidsToRows, m_dBusInterface, proxies, crashed, lookupFailed,
                   currentUser>>

Next ==
    \/ SetPlaceholder
    \/ ServiceRegistered
    \/ ServiceUnregistered
    \/ SetData
    \/ CreateUser
    \/ RemoveUser
    \/ Reset
    \/ OnUserAdded
    \/ OnUserModified
    \/ OnUserRemoved
    \/ UserAddFinished
    \/ UserModifyFinished
    \/ UserRemoveFinished
    \/ SetCurrentUser
    \/ AddGroups
    \/ RemoveGroups
    \/ OnCurrentUserChanged
    \/ OnCurrentUserChangeFailed
    \/ SetCurrentUserFinished
    \/ AddToGroupsFinished
    \/ RemoveFromGroupsFinished

Spec == Init /\ [][Next]_vars

(* ------------------- the broadcast-only model -------------------------- *)
\* The constructed cache, with or without a trailing placeholder, a live
\* proxy, and nothing but user-added and user-removed broadcasts.
InitBroadcast ==
    /\ currentUser = OtherUid
    /\ \E members \in DistinctSeqs(BroadcastUids), withPlaceholder \in BOOLEAN :
          /\ m_users = setPlaceholder(Bootstrap(members).users, withPlaceholder).users
          /\ m_uidsToRows = Bootstrap(members).index
    /\ m_dBusInterface = createInterface(FALSE)
    /\ proxies = createInterfaceProxies(FALSE, 0)
    /\ calls = <<>>
    /\ crashed = FALSE
    /\ emitted = <<>>
    /\ lookupFailed = FALSE

BroadcastUserAdded == OnUserAddedOf(BroadcastUids)

BroadcastUserRemoved == OnUserRemovedOf(BroadcastUids)

NextBroadcast ==
    \/ BroadcastUserAdded
    \/ BroadcastUserRemoved

SpecBroadcast == InitBroadcast /\ [][NextBroadcast]_vars

(* ------------------- the failing-lookup model -------------------------- *)
\* The placeholder, createUser and its reply, and the user-added and
\* user-removed broadcasts, with an OS that may fail to find the uid the
\* reply to add-user carries.
UserAddFinishedAnyLookup == UserAddFinishedOf(BOOLEAN)

NextLookup ==
    \/ SetPlaceholder
    \/ SetData
    \/ CreateUser
    \/ UserAddFinishedAnyLookup
    \/ OnUserAdded
    \/ OnUserRemoved

SpecLookup == Init /\ [][NextLookup]_vars

(* ---------------------- the commit-only model -------------------------- *)
\* From the constructed cache: the placeholder is created and named, the
\* user is created and the reply delivered; no broadcast arrives and the
\* placeholder is not removed.
CreatePlaceholder == SetPlaceholderTo(TRUE)

NextCommit ==
    \/ CreatePlaceholder
    \/ SetData
    \/ CreateUser
    \/ UserAddFinished

SpecCommit == Init /\ [][NextCommit]_vars
(* ============================ properties =============================== *)
\* The valid rows of a cache (row numbers from 0).
(* ------------------ the classifier on every error reply ----------------- *)
\* QDBusError::ErrorType values a reply can carry, "Other" among them.
TransportTypes == {"Other", "Failed", "NoReply", "Timeout", "Disconnected", "InvalidArgs"}

\* Error names a reply can carry: the eleven of the daemon and two others.
ReplyNames == ErrorNames \cup {"", "org.freedesktop.DBus.Error.Failed"}

\* A two-row model with a proxy and one remove-user call in flight whose
\* reply is the error the call record carries.
InitClassifier ==
    /\ currentUser = OtherUid
    /\ m_users = Bootstrap(<<1, 2>>).users
    /\ m_uidsToRows = Bootstrap(<<1, 2>>).index
    /\ m_dBusInterface = createInterface(FALSE)
    /\ proxies = createInterfaceProxies(FALSE, 0)
    /\ \E row \in 0..1, type \in TransportTypes, name \in ReplyNames :
          calls = <<[verb |-> "removeUser", row |-> row, uid |-> m_users[row + 1].uid,
                     error |-> <<type, name>>]>>
    /\ crashed = FALSE
    /\ emitted = <<>>
    /\ lookupFailed = FALSE

\* The error reply in flight is delivered to userRemoveFinished.
UserRemoveErrorReply ==
    /\ calls # <<>>
    /\ emitted' = userRemoveFinished(calls[1].row, FALSE, calls[1].error)
    /\ calls' = Take(1)
    /\ UNCHANGED <<m_users, m_uidsToRows, m_dBusInterface, proxies, crashed, lookupFailed,
                   currentUser>>

NextClassifier == UserRemoveErrorReply

SpecClassifier == InitClassifier /\ [][NextClassifier]_vars

ValidRows(users) == {r \in 0..(Len(users) - 1) : users[r + 1].valid}

\* The index is exactly the inverse of "row r holds uid" over the valid rows.
IsInverse(users, index) ==
    /\ DOMAIN index = {users[r + 1].uid : r \in ValidRows(users)}
    /\ \A r \in ValidRows(users) : index[users[r + 1].uid] = r

\* No row but the last is invalid.
OnlyLastRowInvalid(users) ==
    \A i \in 1..Len(users) : ~users[i].valid => i = Len(users)

\* C1: in every state the running process reaches, whatever the
\* interleaving of local operations, completions and broadcasts,
\* m_uidsToRows is exactly the inverse of the row sequence restricted to the
\* valid rows, and the placeholder has no entry.  (Stated for the runs in
\* which every OS lookup made by a reply handler has succeeded.)
C1_IndexIsInverseOfRows ==
    (~crashed /\ ~lookupFailed) => IsInverse(m_users, m_uidsToRows)

\* C2: from the constructed cache, with or without a trailing placeholder,
\* after every user-added / user-removed broadcast m_uidsToRows is the
\* inverse of the row sequence restricted to the valid rows.
C2_BroadcastsKeepIndexInverse ==
    /\ ~crashed
    /\ IsInverse(m_users, m_uidsToRows)
    /\ \A r \in ValidRows(m_users) : m_users[r + 1].uid \in BroadcastUids

\* C2 witness: a broadcast removed a row from a cache of three indexed rows
\* in front of the placeholder, and the rows behind it moved down.
C2_Witness ==
    /\ Len(emitted) = 1 /\ emitted[1].sig = "rowsRemoved" /\ emitted[1].row = 0
    /\ Cardinality(DOMAIN m_uidsToRows) = 2
    /\ placeholder(m_users)

\* C3: at most one row is invalid and an invalid row is the last row.
C3_OnlyLastRowInvalid ==
    ~crashed => OnlyLastRowInvalid(m_users)

\* C4: no two valid rows carry the same uid.  (Stated for the runs in which
\* every OS lookup made by a reply handler has succeeded.)
C4_ValidUidsUnique ==
    (~crashed /\ ~lookupFailed) => \A i, j \in 1..Len(m_users) :
                   (m_users[i].valid /\ m_users[j].valid
                    /\ m_users[i].uid = m_users[j].uid) => i = j

\* An add-user call is outstanding: createUser ran and its reply is due.
AddUserPending == \E i \in 1..Len(calls) : calls[i].verb = "addUser"

\* The rows of users that carry uid.
RowsWithUid(users, uid) ==
    {r \in 0..(Len(users) - 1) : users[r + 1].valid /\ users[r + 1].uid = uid}

\* A success reply's error argument is not read.
NoError == <<"Other", "">>

\* The success reply for uid, then the user-added broadcast for uid.
ReplyThenBroadcast(users, index, uid) ==
    LET first == userAddFinished(users, index, TRUE, uid, TRUE, NoError)
        second == onUserAdded(first.users, first.index, uid, TRUE)
    IN [first |-> first, second |-> second]

\* The user-added broadcast for uid, then the success reply for uid.
BroadcastThenReply(users, index, uid) ==
    LET first == onUserAdded(users, index, uid, TRUE)
        second == userAddFinished(first.users, first.index, TRUE, uid, TRUE, NoError)
    IN [first |-> first, second |-> second]

\* C5: while the reply of createUser is due, for a uid u the cache does not
\* hold yet, the success reply and the user-added(u) broadcast lead to the
\* same rows and index in either order, with exactly one row for u, the
\* later of the two inserting nothing, and a placeholder that is there has
\* an empty name once the reply is processed.  (Stated for the orders in
\* which no handler goes outside the vector and every OS lookup succeeds.)
C5_ReplyAndBroadcastCommute ==
    (~crashed /\ ~lookupFailed /\ AddUserPending) =>
        \A u \in Uids :
            (~HashContains(m_uidsToRows, u) /\ RowsWithUid(m_users, u) = {}) =>
                LET rb == ReplyThenBroadcast(m_users, m_uidsToRows, u)
                    br == BroadcastThenReply(m_users, m_uidsToRows, u)
                IN (~rb.first.crashed /\ ~br.second.crashed) =>
                       /\ rb.second.users = br.second.users
                       /\ rb.second.index = br.second.index
                       /\ Cardinality(RowsWithUid(rb.second.users, u)) = 1
                       /\ rb.second.sigs = <<>>
                       /\ \A k \in 1..Len(br.second.sigs) :
                             br.second.sigs[k].sig # "rowsInserted"
                       /\ \A o \in {rb.second, br.second} :
                             placeholder(o.users) => o.users[Len(o.users)].name = ""

\* The step that processes a success reply to add-user.
AddReplySucceeded ==
    /\ \E i \in 1..Len(calls) : calls[i].verb = "addUser" /\ calls' = Take(i)
    /\ \A k \in 1..Len(emitted') : emitted'[k].sig # "userAddFailed"

\* C6: a success reply to add-user that brings a uid the index does not
\* hold leaves every valid row where it was (the new row comes after them
\* all), leaves a placeholder that is there the last row and invalid, and
\* resets no row but the placeholder.  (Stated for the replies whose
\* handler stays inside the vector and whose OS lookup finds the user.)
C6_CommitInsertsBehindValidRows ==
    [][(AddReplySucceeded /\ ~crashed'
            /\ ~lookupFailed'
            /\ DOMAIN m_uidsToRows' # DOMAIN m_uidsToRows) =>
          /\ \A i \in 1..Len(m_users) :
                m_users[i].valid =>
                    m_users'[i].valid /\ m_users'[i].uid = m_users[i].uid
          /\ placeholder(m_users) => placeholder(m_users')
          /\ \A k \in 1..Len(emitted') :
                emitted'[k].sig = "dataChanged"
                    => ~m_users'[emitted'[k].row + 1].valid]_vars

\* C7 as claimed: from n valid rows, once the placeholder is created and
\* named, createUser has run and its success reply is processed, the cache
\* holds n+1 rows, none of them invalid.  (Stated for the replies whose OS
\* lookup finds the user.)
C7_PlaceholderGoneOnceCommitted ==
    [][(AddReplySucceeded /\ ~lookupFailed') =>
          /\ Len(m_users') = Cardinality(ValidRows(m_users)) + 1
          /\ ValidRows(m_users') = 0..(Len(m_users') - 1)]_vars

\* C7 amended: when the success reply of createUser is processed before
\* any broadcast, the rows in front of the placeholder stay, the placeholder
\* is still the last row, invalid, with an empty name, and the cache has one
\* row more than before (n+2 with the placeholder) if the reply's uid was
\* not in the index and as many as before (n+1) if it was.
C7_PlaceholderKeptOnceCommitted ==
    [][AddReplySucceeded =>
          /\ placeholder(m_users) /\ placeholder(m_users')
          /\ m_users'[Len(m_users')].name = ""
          /\ SubSeq(m_users', 1, Len(m_users) - 1) = SubSeq(m_users, 1, Len(m_users) - 1)
          /\ Len(m_users') = Len(m_users)
                + Cardinality((DOMAIN m_uidsToRows') \ (DOMAIN m_uidsToRows))]_vars

\* C7 witness: one valid row, then the committed row, then the placeholder,
\* right after the reply inserted the row and reset the placeholder.
C7_Witness ==
    /\ Len(m_users) = 3 /\ m_users[1].valid /\ m_users[2].valid
    /\ placeholder(m_users) /\ m_users[3].name = ""
    /\ Len(emitted) = 2
    /\ emitted[1] = Signal("rowsInserted", 1, "")
    /\ emitted[2] = Signal("dataChanged", 2, "")

\* The step in which removeUser issues its command, and the step in which
\* the reply to a remove-user command is processed.
RemoveIssued ==
    \E row \in 0..(Len(m_users) - 1) :
        calls' = Append(calls, Call("removeUser", row, m_users[row + 1].uid))

RemoveReplied ==
    \E i \in 1..Len(calls) : calls[i].verb = "removeUser" /\ calls' = Take(i)

\* C8: removeUser and the reply to its command leave the rows and the index
\* as they are, and a valid row leaves the cache only in a step that
\* processes user-removed for the uid of that row (the step that drops that
\* uid from the index).  (Stated for the runs in which every OS lookup made
\* by a reply handler has succeeded.)
C8_RowsLeaveOnlyOnTheirBroadcast ==
    [][/\ (RemoveIssued \/ RemoveReplied) => UNCHANGED <<m_users, m_uidsToRows>>
       /\ \A r \in ValidRows(m_users) :
             (~lookupFailed /\ ~crashed' /\ m_users' = VecRemove(m_users, r)) =>
                 /\ HashContains(m_uidsToRows, m_users[r + 1].uid)
                 /\ ~HashContains(m_uidsToRows', m_users[r + 1].uid)]_vars

\* C9: for every uid, a second user-removed(uid) right after the first finds
\* the uid gone from the index: it changes no row and no index entry and
\* emits nothing.
C9_SecondRemovalIsNoOp ==
    \A uid \in Uids :
        LET first == onUserRemoved(m_users, m_uidsToRows, uid)
            second == onUserRemoved(first.users, first.index, uid)
        IN ~first.crashed => second = Out(first.users, first.index, <<>>)

\* C9 witness: user-removed has just taken a row out while other rows stay,
\* so that a second delivery meets a cache that still has rows and an index
\* that still has keys.
C9_Witness ==
    /\ ~crashed
    /\ Len(emitted) = 1 /\ emitted[1].sig = "rowsRemoved"
    /\ Len(m_users) >= 1
    /\ DOMAIN m_uidsToRows # {} /\ DOMAIN m_uidsToRows # Uids

\* C10: setData on the name of an in-range row, valid or placeholder, with
\* the empty name or the name the row has returns false, issues no command,
\* emits nothing and leaves the rows as they are.
C10_RenameToSameOrEmptyIsNoOp ==
    \A row \in 0..(Len(m_users) - 1), name \in Names :
        (name = "" \/ name = m_users[row + 1].name) =>
            setData(m_users, row, "NameRole", name)
                = [ret |-> FALSE, users |-> m_users, sigs |-> <<>>, cmd |-> <<>>]

\* C10 witness: setData has just renamed a row, which now has a non-empty
\* name, in a cache that has a valid row and a named placeholder.
C10_Witness ==
    /\ Len(emitted) = 1 /\ emitted[1].sig = "dataChanged" /\ emitted[1].arg = "NameRole"
    /\ placeholder(m_users) /\ m_users[Len(m_users)].name # ""
    /\ ValidRows(m_users) # {}

\* The step that processes an error reply to the i-th outstanding call, a
\* modify-user command.
ModifyReplyFailed(i) ==
    /\ calls[i].verb = "modifyUser"
    /\ calls' = Take(i)
    /\ Len(emitted') >= 1
    /\ emitted'[1].sig = "userModifyFailed"

\* C11: when the modify-user command of a rename of the row of uid u fails,
\* whatever broadcasts and placeholder toggles came in between, the row the
\* failure signal names and the row that is reset is the row that holds u
\* now, no other row changes, and with u gone from the cache no row changes.
C11_ModifyFailureRevertsRowOfUid ==
    [][\A i \in 1..Len(calls) :
          (ModifyReplyFailed(i) /\ ~crashed') =>
              LET rows == RowsWithUid(m_users, calls[i].uid) IN
              /\ rows = {} => m_users' = m_users
              /\ \A r \in rows :
                    /\ emitted'[1].row = r
                    /\ m_users' = reset(m_users, r).users]_vars

\* The step in which setCurrentUser issues its command, and the step in
\* which the reply to a set-current-user command is processed.
SetCurrentIssued ==
    \E row \in 0..(Len(m_users) - 1) :
        calls' = Append(calls, Call("setCurrentUser", row, m_users[row + 1].uid))

SetCurrentReplied ==
    \E i \in 1..Len(calls) : calls[i].verb = "setCurrentUser" /\ calls' = Take(i)

\* A row that stays where it is has another current flag after the step.
CurrentFlagChanged ==
    /\ Len(m_users') = Len(m_users)
    /\ \E r \in 1..Len(m_users) :
          /\ m_users'[r].uid = m_users[r].uid
          /\ m_users'[r].current # m_users[r].current

\* The step emitted a change notification for the current flag, which only
\* onCurrentUserChanged emits.
CurrentBroadcastProcessed ==
    \E k \in 1..Len(emitted') :
        emitted'[k].sig = "dataChanged" /\ emitted'[k].arg = "CurrentRole"

\* C12: setCurrentUser and the reply to its command leave the rows (their
\* current flags included), the index and the current user as they are, and
\* the current flag of a row changes only in a step that processes a
\* current-user-changed broadcast.
C12_CurrentFlagChangesOnlyOnBroadcast ==
    [][/\ (SetCurrentIssued \/ SetCurrentReplied)
             => UNCHANGED <<m_users, m_uidsToRows, currentUser, crashed>>
       /\ CurrentFlagChanged => CurrentBroadcastProcessed]_vars

\* C12 witness: an error reply to set-current-user has just been processed
\* for a row that is not flagged current, while another row is.
C12_Witness ==
    /\ Len(emitted) = 1 /\ emitted[1].sig = "setCurrentUserFailed"
    /\ emitted[1].arg = "NoReply"
    /\ emitted[1].row < Len(m_users)
    /\ ~m_users[emitted[1].row + 1].current
    /\ \E r \in 1..Len(m_users) : m_users[r].current

\* The failure signal of each command, and the row it carries: none (-1) for
\* add-user, the row bound into the completion for the others.
FailureSignal(verb) ==
    CASE verb = "addUser" -> "userAddFailed"
      [] verb = "modifyUser" -> "userModifyFailed"
      [] verb = "removeUser" -> "userRemoveFailed"
      [] verb = "setCurrentUser" -> "setCurrentUserFailed"
      [] verb = "addToGroups" -> "addGroupsFailed"
      [] verb = "removeFromGroups" -> "removeGroupsFailed"

FailureSignals ==
    {"userAddFailed", "userModifyFailed", "userRemoveFailed",
     "setCurrentUserFailed", "addGroupsFailed", "removeGroupsFailed"}

FailureRow(call) == IF call.verb = "addUser" THEN -1 ELSE call.row

\* The failure signals among the signals a handler emitted, in order.
Failures(sigs) == SelectSeq(sigs, LAMBDA x : x.sig \in FailureSignals)

\* The signals the completion handler of call emits in the present state for
\* a reply that is a success (carrying uid, for add-user) or the error.
ReplySignals(call, ok, uid, error) ==
    CASE call.verb = "addUser" ->
             userAddFinished(m_users, m_uidsToRows, ok, uid, TRUE, error).sigs
      [] call.verb = "modifyUser" -> userModifyFinished(m_users, call.row, ok, error).sigs
      [] call.verb = "removeUser" -> userRemoveFinished(call.row, ok, error)
      [] call.verb = "setCurrentUser" -> setCurrentUserFinished(call.row, ok, error)
      [] call.verb = "addToGroups" -> addToGroupsFinished(call.row, ok, error)
      [] call.verb = "removeFromGroups" -> removeFromGroupsFinished(call.row, ok, error)

\* C13: when the reply to an outstanding command is processed, an error
\* reply gives exactly one failure signal, of the kind of the command, with
\* the classified error code and the row of the command (no row for
\* add-user); a success reply gives no failure signal; the step emits no
\* other failure signal; a failed add-user leaves the rows (the placeholder
\* with them) and the index as they are, and a failed remove-user leaves the
\* rows as they are.
C13_ErrorReplyGivesOneTypedFailure ==
    [][\A i \in 1..Len(calls) :
          calls' = Take(i) =>
              LET call == calls[i]
                  failed == Failures(emitted')
              IN /\ \A error \in SampleErrors, uid \in Uids :
                       Failures(ReplySignals(call, FALSE, uid, error))
                           = <<Signal(FailureSignal(call.verb), FailureRow(call),
                                      getErrorType(error))>>
                 /\ \A uid \in Uids :
                       Failures(ReplySignals(call, TRUE, uid, NoError)) = <<>>
                 /\ Len(failed) <= 1
                 /\ \A k \in 1..Len(failed) :
                       /\ failed[k].sig = FailureSignal(call.verb)
                       /\ failed[k].row = FailureRow(call)
                 /\ (failed # <<>> /\ call.verb = "addUser")
                       => UNCHANGED <<m_users, m_uidsToRows>>
                 /\ (failed # <<>> /\ call.verb = "removeUser")
                       => UNCHANGED <<m_users, m_uidsToRows>>]_vars

\* C13 witness: the error reply to remove-user has just been processed and
\* the row of the command is still a valid row; the placeholder is there.
C13_Witness ==
    /\ emitted = <<Signal("userRemoveFailed", 0, "UserRemoveFailed")>>
    /\ Len(m_users) >= 2 /\ m_users[1].valid
    /\ placeholder(m_users)

\* C14: at most one proxy is alive, and it is the one m_dBusInterface names;
\* a registration event that finds a proxy and a deregistration event that
\* finds none change nothing of the proxy; right after a deregistration event
\* there is no proxy, none alive, and no subscription to the broadcasts.
C14_AtMostOneProxy ==
    /\ [](proxies <= 1 /\ (m_dBusInterface <=> proxies = 1))
    /\ [][/\ ServiceUnregistered
                 => (~m_dBusInterface' /\ proxies' = 0 /\ ~Subscribed')
          /\ (ServiceRegistered /\ m_dBusInterface)
                 => UNCHANGED <<m_dBusInterface, proxies>>
          /\ (ServiceUnregistered /\ ~m_dBusInterface)
                 => UNCHANGED <<m_dBusInterface, proxies>>
          /\ (Len(calls') > Len(calls) /\ m_dBusInterface)
                 => UNCHANGED <<m_dBusInterface, proxies>>]_vars

\* C14 witness: a command is outstanding that was issued after the proxy was
\* destroyed, through a proxy made on demand, and the daemon is gone again:
\* no proxy is left.
C14_Witness ==
    /\ calls # <<>>
    /\ ~m_dBusInterface /\ proxies = 0

\* C15: a step that issues a remote command (add-user, modify-user,
\* remove-user, set-current-user, add-to-groups, remove-from-groups) ends
\* with a proxy, whether or not there was one before the step.
C15_CommandsNeedProxy ==
    [][Len(calls') > Len(calls) => (m_dBusInterface' /\ proxies' = 1)]_vars

\* C15 witness: the daemon was not registered when the model was built or
\* has gone since, no broadcast has arrived, and a group command is
\* outstanding, issued through the proxy made on demand.
C15_Witness ==
    /\ calls # <<>> /\ calls[1].verb = "removeFromGroups"
    /\ m_dBusInterface /\ proxies = 1
    /\ emitted = <<>>

\* The enumeration value the claim gives to each daemon error name.
DaemonErrorValues ==
    {<<"SailfishUserManagerErrorBusy", "Busy">>,
     <<"SailfishUserManagerErrorHomeCreateFailed", "HomeCreateFailed">>,
     <<"SailfishUserManagerErrorHomeRemoveFailed", "HomeRemoveFailed">>,
     <<"SailfishUserManagerErrorGroupCreateFailed", "GroupCreateFailed">>,
     <<"SailfishUserManagerErrorUserAddFailed", "UserAddFailed">>,
     <<"SailfishUserManagerErrorUserModifyFailed", "UserModifyFailed">>,
     <<"SailfishUserManagerErrorUserRemoveFailed", "UserRemoveFailed">>,
     <<"SailfishUserManagerErrorGetUidFailed", "GetUidFailed">>,
     <<"SailfishUserManagerErrorUserNotFound", "UserNotFound">>,
     <<"SailfishUserManagerErrorAddToGroupFailed", "AddToGroupFailed">>,
     <<"SailfishUserManagerErrorRemoveFromGroupFailed", "RemoveFromGroupFailed">>}

\* C16: the code a failure signal carries is a function of the (transport
\* type, name) of the error reply: the transport type itself when it is not
\* "Other"; for "Other", the enumeration value of a daemon name, the eleven
\* names having eleven different values, none of them OtherError; and
\* OtherError for any other name.
C16_ClassifierIsTotal ==
    [][(calls # <<>> /\ calls' = <<>>) =>
          LET error == calls[1].error IN
          /\ Len(emitted') = 1
          /\ error[1] # "Other" => emitted'[1].arg = error[1]
          /\ (error[1] = "Other" /\ error[2] \in ErrorNames) =>
                /\ <<error[2], emitted'[1].arg>> \in DaemonErrorValues
                /\ emitted'[1].arg # "OtherError"
                /\ \A other \in ErrorNames \ {error[2]} :
                      getErrorType(<<"Other", other>>) # emitted'[1].arg
          /\ (error[1] = "Other" /\ error[2] \notin ErrorNames) =>
                emitted'[1].arg = "OtherError"]_vars

\* C16 witness: an error reply has been classified as a daemon error.
C16_Witness ==
    /\ calls = <<>>
    /\ Len(emitted) = 1 /\ emitted[1].sig = "userRemoveFailed"
    /\ emitted[1].arg = "UserNotFound"
    /\ Cardinality(ErrorNames) = 11

\* The rows a row-taking operation rejects: those outside the cache and
\* the placeholder row.
RejectedRows ==
    {-1, Len(m_users)} \cup
    (IF placeholder(m_users) THEN {Len(m_users) - 1} ELSE {})

\* createUser is rejected: no placeholder, or a placeholder without a name.
CreateRejected ==
    \/ ~placeholder(m_users)
    \/ m_users[Len(m_users)].name = ""

\* C17: in every reachable state removeUser, setCurrentUser, addGroups and
\* removeGroups issue no command for a row outside the cache or for the
\* placeholder row, reset changes and announces nothing for a row outside
\* the cache, and createUser issues no command without a placeholder or
\* with an unnamed one; and a step of one of these operations that issues
\* no command (of reset: that announces nothing) emits no signal, leaves
\* rows and index as they were and creates no proxy.
C17_ValidationFailuresAreSilent ==
    /\ [](/\ \A row \in RejectedRows :
              /\ removeUser(m_users, row) = <<>>
              /\ setCurrentUser(m_users, row) = <<>>
              /\ addGroups(m_users, row) = <<>>
              /\ removeGroups(m_users, row) = <<>>
          /\ \A row \in {-1, Len(m_users)} :
              reset(m_users, row) = [users |-> m_users, sigs |-> <<>>]
          /\ CreateRejected => createUser(m_users) = <<>>)
    /\ [][/\ ((RemoveUser \/ SetCurrentUser \/ AddGroups \/ RemoveGroups \/ CreateUser)
               /\ calls' = calls)
              => (emitted' = <<>> /\ UNCHANGED <<m_users, m_uidsToRows, m_dBusInterface,
                                                  proxies, crashed>>)
          /\ (Reset /\ emitted' = <<>>) => UNCHANGED <<m_users, m_uidsToRows, calls>>]_vars

\* C17 witness: an unnamed placeholder behind a user row, no proxy, no
\* call outstanding and nothing emitted by the last step: every one of the
\* rejections applies and one of them has just been taken.
C17_Witness ==
    /\ Len(m_users) = 2
    /\ placeholder(m_users) /\ m_users[2].name = ""
    /\ m_users[1].valid
    /\ calls = <<>> /\ emitted = <<>>
    /\ ~m_dBusInterface

\* The insert and remove notifications among the signals of a step.
StructuralSignals(sigs) ==
    SelectSeq(sigs, LAMBDA s : s.sig \in {"rowsInserted", "rowsRemoved"})

\* What an observer can tell rows apart by: validity and uid.
RowIds(users) == [r \in 1..Len(users) |-> <<users[r].valid, users[r].uid>>]

\* An observer holding the rows before applies the structural notifications
\* of the step and holds the rows after: without a notification the rows
\* are the same; with one (and there is at most one) its position is a
\* position of the list and the insertion (of the row the model shows at
\* that position) or removal there gives the rows after.
ObserverTracks(before, sigs, after) ==
    LET st == StructuralSignals(sigs) IN
    IF st = <<>> THEN RowIds(after) = RowIds(before)
    ELSE /\ Len(st) = 1
         /\ IF st[1].sig = "rowsInserted"
            THEN /\ st[1].row \in 0..Len(before)
                 /\ Len(after) = Len(before) + 1
                 /\ RowIds(after) =
                       VecInsert(RowIds(before), st[1].row, RowIds(after)[st[1].row + 1])
            ELSE /\ st[1].row \in 0..(Len(before) - 1)
                 /\ RowIds(after) = VecRemove(RowIds(before), st[1].row)

\* C18: every step leaves a well-defined row sequence, and the observer
\* that applies the insert and remove notifications of the step to the rows
\* before it holds the rows after it.
C18_ObserverTracksCache ==
    [][~crashed' /\ ObserverTracks(m_users, emitted', m_users')]_vars

\* C19: in every reachable state, user-removed(uid) for a uid of the index
\* stays inside the vector and leaves exactly the rows that do not carry
\* uid, in their order, one row fewer than before; the index loses the key
\* uid, every value above the removed position is one smaller and every
\* other value is as it was; for a uid that is not in the index nothing
\* changes and nothing is emitted.
C19_RemovalRemovesRowOfUid ==
    ~crashed =>
    \A uid \in BroadcastUids :
        LET o == onUserRemoved(m_users, m_uidsToRows, uid) IN
        IF ~HashContains(m_uidsToRows, uid)
        THEN o = Out(m_users, m_uidsToRows, <<>>)
        ELSE /\ ~o.crashed
             /\ o.users = SelectSeq(m_users, LAMBDA u : ~(u.valid /\ u.uid = uid))
             /\ Len(o.users) = Len(m_users) - 1
             /\ DOMAIN o.index = DOMAIN m_uidsToRows \ {uid}
             /\ \A k \in DOMAIN o.index :
                   o.index[k] = IF m_uidsToRows[k] > m_uidsToRows[uid]
                                THEN m_uidsToRows[k] - 1
                                ELSE m_uidsToRows[k]

\* C20: a step that processes current-user-changed(uid) emits only change
\* notifications of the current flag, and each of them that names a row of
\* the cache (one with an invalid model index names none) names a row whose
\* current flag is not what it was before the step; and when uid is not in
\* the index no row is flagged current after the step.
C20_NotificationsNameFlippedRows ==
    [][OnCurrentUserChanged =>
          /\ \A k \in 1..Len(emitted') :
                /\ emitted'[k].sig = "dataChanged"
                /\ emitted'[k].arg = "CurrentRole"
                /\ emitted'[k].row \in 0..(Len(m_users) - 1) =>
                      m_users'[emitted'[k].row + 1].current
                         # m_users[emitted'[k].row + 1].current
          /\ (~crashed' /\ ~HashContains(m_uidsToRows, currentUser')) =>
                \A r \in 1..Len(m_users') : ~m_users'[r].current]_vars
====
